---- MODULE Spec2Model ----
(***************************************************************************)
(* Crop_Status: the inventory-aggregation pass of                         *)
(* crop_inventory/inventory_utils.py (create_crop_inventory) and the      *)
(* processing run of crop_inventory/main.py (main).                       *)
(*                                                                         *)
(* A cell of a data frame row is a record [k, s, n]: k is the kind of the  *)
(* Python value ("nan": a missing value, "str": the string s, "num": the    *)
(* number n, "none": None).  A row maps each column of its file to a cell. *)
(***************************************************************************)
EXTENDS Integers, Sequences, FiniteSets, TLC

VARIABLES
    files,          \* the directory tree: the files os.walk yields, in order
    fi,             \* index of the file the walk is at
    ri,             \* index of the row df.iterrows() is at (0: no frame open)
    inventory,      \* inventory: (country_code, crop) -> aggregate (sets)
    file_count,
    row_count,
    error_count,
    country_set,
    crop_set,
    result,         \* the dict create_crop_inventory returns (sorted lists)
    pc,             \* position of the run
    args,           \* command line and environment of main
    disk,           \* the three output files of main
    summary_df,     \* the frame create_summary_dataframe returns
    country_summary, \* the frame of the rollup by country_code
    key_order,      \* the keys of inventory in insertion order
    doneB,          \* second pass over the same rows, in another order:
                    \* the positions of the rows it has processed
    invB,           \* second pass: its inventory
    errB            \* second pass: its error_count

vars == <<files, fi, ri, inventory, file_count, row_count, error_count,
          country_set, crop_set, result, pc, args, disk, summary_df,
          country_summary, key_order, doneB, invB, errB>>

-----------------------------------------------------------------------------
(* Python values *)

NaN == [k |-> "nan", s |-> "", n |-> 0]
PyNone == [k |-> "none", s |-> "", n |-> 0]
Str(t) == [k |-> "str", s |-> t, n |-> 0]
Num(m) == [k |-> "num", s |-> "", n |-> m]

\* row.get(col, default): the default when the frame has no such column
Get(row, col, default) == IF col \in DOMAIN row THEN row[col] ELSE default

\* pd.isna(v)
isna(v) == v.k \in {"nan", "none"}

\* bool(v): '' and 0 and None are falsy, NaN is truthy
Truthy(v) ==
    CASE v.k = "str" -> v.s # ""
      [] v.k = "num" -> v.n # 0
      [] v.k = "nan" -> TRUE
      [] OTHER -> FALSE

-----------------------------------------------------------------------------
(* Strings *)

Char(t, i) == SubSeq(t, i, i)

Digits == "0123456789"
UpperCase == "ABCDEFGHIJKLMNOPQRSTUVWXYZ"
LowerCase == "abcdefghijklmnopqrstuvwxyz"
\* the characters of the labels, in code point order
Alphabet == " -/0123456789ABCDEFGHIJKLMNOPQRSTUVWXYZ_abcdefghijklmnopqrstuvwxyz"

IsDigit(c) == \E i \in 1..10 : Char(Digits, i) = c
DigitVal(c) == (CHOOSE i \in 1..10 : Char(Digits, i) = c) - 1
AllDigits(t) == \A i \in 1..Len(t) : IsDigit(Char(t, i))

RECURSIVE StrToNat(_)
StrToNat(t) ==
    IF t = "" THEN 0
    ELSE StrToNat(SubSeq(t, 1, Len(t) - 1)) * 10 + DigitVal(Char(t, Len(t)))

\* str.lower()
LowerChar(c) ==
    IF \E i \in 1..26 : Char(UpperCase, i) = c
    THEN Char(LowerCase, CHOOSE i \in 1..26 : Char(UpperCase, i) = c)
    ELSE c

RECURSIVE lower(_)
lower(t) ==
    IF t = "" THEN ""
    ELSE LowerChar(Char(t, 1)) \o lower(SubSeq(t, 2, Len(t)))

\* sub in t
Contains(sub, t) ==
    \E i \in 1..(Len(t) - Len(sub) + 1) : SubSeq(t, i, i + Len(sub) - 1) = sub

\* t.split(sep) for a one-character separator
RECURSIVE Split(_, _)
Split(t, sep) ==
    IF \E i \in 1..Len(t) : Char(t, i) = sep
    THEN LET i == CHOOSE j \in 1..Len(t) :
                      /\ Char(t, j) = sep
                      /\ \A h \in 1..(j - 1) : Char(t, h) # sep
         IN <<SubSeq(t, 1, i - 1)>> \o Split(SubSeq(t, i + 1, Len(t)), sep)
    ELSE <<t>>

Ord(c) == CHOOSE i \in 1..Len(Alphabet) : Char(Alphabet, i) = c

\* a < b on str: lexicographic by code point
RECURSIVE StrLess(_, _)
StrLess(a, b) ==
    IF b = "" THEN FALSE
    ELSE IF a = "" THEN TRUE
    ELSE IF Char(a, 1) = Char(b, 1)
         THEN StrLess(SubSeq(a, 2, Len(a)), SubSeq(b, 2, Len(b)))
         ELSE Ord(Char(a, 1)) < Ord(Char(b, 1))

-----------------------------------------------------------------------------
(* int() and datetime.strptime() *)

\* int(v) succeeds on a number and on a string of decimal digits
IntOk(v) == \/ v.k = "num"
            \/ v.k = "str" /\ v.s # "" /\ AllDigits(v.s)
IntVal(v) == IF v.k = "num" THEN v.n ELSE StrToNat(v.s)

IsLeap(y) == (y % 4 = 0 /\ y % 100 # 0) \/ y % 400 = 0
DaysIn(y, m) ==
    IF m = 2 THEN (IF IsLeap(y) THEN 29 ELSE 28)
    ELSE IF m \in {4, 6, 9, 11} THEN 30 ELSE 31

\* one directive of a format against one part of the string
DirectiveOk(d, part) ==
    CASE d = "Y" -> Len(part) = 4 /\ AllDigits(part)
      [] d = "m" -> /\ Len(part) \in {1, 2}
                    /\ AllDigits(part)
                    /\ StrToNat(part) \in 1..12
      [] d = "d" -> \/ /\ Len(part) \in {1, 2}
                       /\ AllDigits(part)
                       /\ StrToNat(part) \in 1..31
                    \/ /\ Len(part) = 2
                       /\ Char(part, 1) = " "
                       /\ IsDigit(Char(part, 2))
                       /\ Char(part, 2) # "0"
DirectiveVal(part) ==
    IF Char(part, 1) = " " THEN StrToNat(SubSeq(part, 2, Len(part)))
    ELSE StrToNat(part)

\* the formats '%Y-%m-%d', '%m/%d/%Y', '%d/%m/%Y', '%Y', in the order tried
DateFormats ==
    << [sep |-> "-", fields |-> <<"Y", "m", "d">>],
       [sep |-> "/", fields |-> <<"m", "d", "Y">>],
       [sep |-> "/", fields |-> <<"d", "m", "Y">>],
       [sep |-> "", fields |-> <<"Y">>] >>

FieldAt(fmt, parts, d) ==
    DirectiveVal(parts[CHOOSE i \in 1..Len(fmt.fields) : fmt.fields[i] = d])

\* datetime.strptime(date_str, fmt) returns a date (TRUE) or raises (FALSE)
strptimeOk(date_str, fmt) ==
    /\ date_str.k = "str"
    /\ LET parts == Split(date_str.s, fmt.sep)
       IN /\ Len(parts) = Len(fmt.fields)
          /\ \A i \in 1..Len(parts) : DirectiveOk(fmt.fields[i], parts[i])
          /\ FieldAt(fmt, parts, "Y") >= 1
          /\ Len(fmt.fields) = 3 =>
                FieldAt(fmt, parts, "d")
                    <= DaysIn(FieldAt(fmt, parts, "Y"), FieldAt(fmt, parts, "m"))

\* datetime.strptime(date_str, fmt).year
strptimeYear(date_str, fmt) ==
    FieldAt(fmt, Split(date_str.s, fmt.sep), "Y")

-----------------------------------------------------------------------------
(* Field extraction, lines 53-148 of create_crop_inventory *)

Columns ==
    {"country_code", "product", "cpcv2_description", "season_year",
     "start_date", "period_date", "harvest_end_date", "season_name",
     "season_type", "admin_4", "admin_3", "admin_2", "admin_1", "admin_0",
     "geographic_unit_name", "indicator", "indicator_group",
     "source_organization", "source_document"}

\* x = row.get(first, ''); if pd.isna(x) or not x: x = row.get(second, dflt);
\* if pd.isna(x): x = dflt
Fallback2(row, first, second, dflt) ==
    LET x1 == Get(row, first, Str(""))
        x2 == IF isna(x1) \/ ~Truthy(x1) THEN Get(row, second, Str(dflt)) ELSE x1
    IN IF isna(x2) THEN Str(dflt) ELSE x2

crop(row) == Fallback2(row, "product", "cpcv2_description", "Unknown Crop")
season(row) == Fallback2(row, "season_name", "season_type", "Annual")
source(row) == Fallback2(row, "source_organization", "source_document", "Unknown")

\* the date fields scanned last to first
date_fields_reversed == <<"harvest_end_date", "period_date", "start_date">>

date_fields == <<"start_date", "period_date", "harvest_end_date">>

\* the inner loop over the formats: the year of the first format that parses
RECURSIVE TryFormats(_, _)
TryFormats(date_str, i) ==
    IF i > Len(DateFormats) THEN PyNone
    ELSE IF strptimeOk(date_str, DateFormats[i])
         THEN Num(strptimeYear(date_str, DateFormats[i]))
         ELSE TryFormats(date_str, i + 1)

\* the loop over date_fields: stops at the first field that gave a year
RECURSIVE ScanDates(_, _)
ScanDates(row, i) ==
    IF i > Len(date_fields) THEN PyNone
    ELSE LET v == Get(row, date_fields[i], PyNone)
             y == IF isna(v) THEN PyNone ELSE TryFormats(v, 1)
         IN IF Truthy(y) THEN y ELSE ScanDates(row, i + 1)

\* year: int(season_year) when season_year is not missing; the date fields
\* are scanned only in the except branch of that int()
year(row) ==
    LET sy == Get(row, "season_year", PyNone)
    IN IF isna(sy) THEN PyNone
       ELSE IF IntOk(sy) THEN Num(IntVal(sy))
       ELSE ScanDates(row, 1)

admin_levels == <<"admin_4", "admin_3", "admin_2", "admin_1", "admin_0">>

RECURSIVE FirstAdmin(_, _)
FirstAdmin(row, i) ==
    IF i > Len(admin_levels) THEN PyNone
    ELSE LET v == Get(row, admin_levels[i], PyNone)
         IN IF ~isna(v) /\ Truthy(v) THEN v ELSE FirstAdmin(row, i + 1)

region(row) ==
    LET r == FirstAdmin(row, 1)
    IN IF ~Truthy(r) THEN Get(row, "geographic_unit_name", Str("National")) ELSE r

indicator(row) == Get(row, "indicator", Str(""))
indicator_group(row) == Get(row, "indicator_group", Str(""))

\* the four tests on indicator.lower()
TextFlags(t) ==
    [area_planted |-> \/ Contains("planted", t)
                      \/ Contains("planting", t)
                      \/ Contains("area planted", t),
     area_harvested |-> \/ Contains("harvested", t)
                        \/ Contains("harvesting", t)
                        \/ Contains("area harvested", t),
     production |-> Contains("yield", t) \/ Contains("production", t),
     quantity_produced |-> \/ Contains("quantity", t)
                           \/ Contains("volume", t)
                           \/ Contains("output", t)]

NoFlags == [area_planted |-> FALSE, area_harvested |-> FALSE,
            production |-> FALSE, quantity_produced |-> FALSE]

AnyFlag(f) == f.area_planted \/ f.area_harvested \/ f.quantity_produced \/ f.production

\* 'area' sets area_planted only
GroupFlagsPlantedOnly(t) ==
    [area_planted |-> Contains("area", t),
     area_harvested |-> FALSE,
     production |-> Contains("production", t),
     quantity_produced |-> Contains("quantity", t) \/ Contains("yield", t)]

\* the three tests on indicator_group.lower()
GroupFlags(t) ==
    [area_planted |-> Contains("area", t),
     area_harvested |-> Contains("area", t),
     production |-> Contains("production", t),
     quantity_produced |-> Contains("quantity", t) \/ Contains("yield", t)]

IndicatorFlags(row) ==
    IF isna(indicator(row)) THEN NoFlags ELSE TextFlags(lower(indicator(row).s))

\* the tests on the group are made whatever the tests on the indicator gave
FlagsGroupAlways(row) ==
    LET f == IndicatorFlags(row)
        g == IF isna(indicator_group(row)) THEN NoFlags
             ELSE GroupFlags(lower(indicator_group(row).s))
    IN [area_planted |-> f.area_planted \/ g.area_planted,
        area_harvested |-> f.area_harvested \/ g.area_harvested,
        production |-> f.production \/ g.production,
        quantity_produced |-> f.quantity_produced \/ g.quantity_produced]

\* the availability flags of a row, lines 114-141
Flags(row) ==
    LET f == IndicatorFlags(row)
    IN IF ~AnyFlag(f) /\ ~isna(indicator_group(row))
       THEN GroupFlags(lower(indicator_group(row).s))
       ELSE f

\* .lower() on a value that is not a string raises AttributeError
RowRaises(row) ==
    \/ ~isna(indicator(row)) /\ indicator(row).k # "str"
    \/ /\ ~AnyFlag(IndicatorFlags(row))
       /\ ~isna(indicator_group(row))
       /\ indicator_group(row).k # "str"

\* the row is skipped by the continue of line 56
RowSkipped(row) == isna(Get(row, "country_code", PyNone))

-----------------------------------------------------------------------------
(* The aggregate and its update, lines 15-25 and 150-166 *)

\* the default factory of the inner defaultdict
EmptyAggregate ==
    [years |-> {}, seasonality |-> {},
     area_planted |-> FALSE, area_harvested |-> FALSE,
     quantity_produced |-> FALSE, production |-> FALSE,
     regions |-> {}, data_sources |-> {}, indicators |-> {}]

\* inventory[country_code][crop] on the nested defaultdict
Lookup(inv, key) == IF key \in DOMAIN inv THEN inv[key] ELSE EmptyAggregate

\* the local variables of the row loop after lines 53-148
Extract(row) ==
    [country_code |-> Get(row, "country_code", PyNone),
     crop |-> crop(row),
     year |-> year(row),
     season |-> season(row),
     region |-> region(row),
     indicator |-> indicator(row),
     flags |-> Flags(row),
     source |-> source(row)]

KeyOf(x) == <<x.country_code, x.crop>>

\* old = new
OrIntoAssign(old, new) == new

\* old &= new
OrIntoAnd(old, new) == old /\ new

\* old |= new
OrInto(old, new) == old \/ new

\* s = {v}
AddToReplace(s, v) == {v}

\* s.add(v)
AddTo(s, v) == s \cup {v}

\* lines 151-166 without the test of line 151
UpdateAggregateAnyYear(a, x) ==
    [years |-> AddTo(a.years, x.year.n),
     seasonality |-> AddTo(a.seasonality, x.season),
     area_planted |-> OrInto(a.area_planted, x.flags.area_planted),
     area_harvested |-> OrInto(a.area_harvested, x.flags.area_harvested),
     quantity_produced |-> OrInto(a.quantity_produced, x.flags.quantity_produced),
     production |-> OrInto(a.production, x.flags.production),
     regions |-> IF Truthy(x.region) THEN AddTo(a.regions, x.region) ELSE a.regions,
     data_sources |-> AddTo(a.data_sources, x.source),
     indicators |-> IF ~isna(x.indicator) THEN AddTo(a.indicators, x.indicator)
                    ELSE a.indicators]

\* lines 151-166 on the aggregate of the row's key
UpdateAggregate(a, x) ==
    [years |-> IF Truthy(x.year) THEN AddTo(a.years, x.year.n) ELSE a.years,
     seasonality |-> AddTo(a.seasonality, x.season),
     area_planted |-> OrInto(a.area_planted, x.flags.area_planted),
     area_harvested |-> OrInto(a.area_harvested, x.flags.area_harvested),
     quantity_produced |-> OrInto(a.quantity_produced, x.flags.quantity_produced),
     production |-> OrInto(a.production, x.flags.production),
     regions |-> IF Truthy(x.region) THEN AddTo(a.regions, x.region) ELSE a.regions,
     data_sources |-> AddTo(a.data_sources, x.source),
     indicators |-> IF ~isna(x.indicator) THEN AddTo(a.indicators, x.indicator)
                    ELSE a.indicators]

UpdateInventory(inv, x) ==
    [k \in DOMAIN inv \cup {KeyOf(x)} |->
        IF k = KeyOf(x) THEN UpdateAggregate(Lookup(inv, k), x) ELSE inv[k]]

-----------------------------------------------------------------------------
(* sorted(list(s)), lines 179-186 *)

\* a < b is defined between two strings and between two floats
Comparable(a, b) == (a.k = "str") = (b.k = "str")

\* sorted() raises TypeError on a set that mixes strings with NaN or numbers
Sortable(s) == \A a \in s, b \in s : Comparable(a, b)

ValLess(a, b) ==
    IF a.k = "str" /\ b.k = "str" THEN StrLess(a.s, b.s)
    ELSE IF a.k = "num" /\ b.k = "num" THEN a.n < b.n
    ELSE FALSE

\* sorted(list(s), reverse=True)
RECURSIVE SortedValsDescending(_)
SortedValsDescending(s) ==
    IF s = {} THEN <<>>
    ELSE LET m == CHOOSE x \in s : \A y \in s : ~ValLess(x, y)
         IN <<m>> \o SortedValsDescending(s \ {m})

RECURSIVE SortedVals(_)
SortedVals(s) ==
    IF s = {} THEN <<>>
    ELSE LET m == CHOOSE x \in s : \A y \in s : ~ValLess(y, x)
         IN <<m>> \o SortedVals(s \ {m})

RECURSIVE SortedInts(_)
SortedInts(s) ==
    IF s = {} THEN <<>>
    ELSE LET m == CHOOSE x \in s : \A y \in s : x <= y
         IN <<m>> \o SortedInts(s \ {m})

ConvertOk(inv) ==
    \A k \in DOMAIN inv :
        /\ Sortable(inv[k].seasonality)
        /\ Sortable(inv[k].regions)
        /\ Sortable(inv[k].data_sources)
        /\ Sortable(inv[k].indicators)

Converted(inv) ==
    [k \in DOMAIN inv |->
        [inv[k] EXCEPT !.years = SortedInts(@),
                       !.seasonality = SortedVals(@),
                       !.regions = SortedVals(@),
                       !.data_sources = SortedVals(@),
                       !.indicators = SortedVals(@)]]

-----------------------------------------------------------------------------
(* The directory trees the pass is run on *)

\* a tree has at most MaxFiles files and its frames at most MaxRows rows in all
MaxFiles == 2
MaxRows == 2

\* a row of a frame: a cell for each column of the file
Row(cells) == cells

\* files with the columns country_code, product, season_year, indicator
RowsA ==
    { Row([country_code |-> Str("KE"), product |-> Str("Maize"),
           season_year |-> Num(2019), indicator |-> Str("Area Harvested")]),
      Row([country_code |-> Str("KE"), product |-> Str("Maize"),
           season_year |-> Num(2020), indicator |-> Str("Production")]),
      Row([country_code |-> Str("KE"), product |-> Str("Maize"),
           season_year |-> NaN, indicator |-> Num(7)]),
      Row([country_code |-> NaN, product |-> Str("Maize"),
           season_year |-> Num(2021), indicator |-> Str("Area Planted")]),
      Row([country_code |-> Str("UG"), product |-> NaN,
           season_year |-> Str("not-a-number"), indicator |-> NaN]) }

\* files that also have start_date, geographic_unit_name, indicator_group
\* and source_organization
RowsB ==
    { Row([country_code |-> Str("KE"), product |-> Str("Maize"),
           season_year |-> NaN, start_date |-> Str("2018-05-01"),
           geographic_unit_name |-> Str("Rift Valley"), indicator |-> NaN,
           indicator_group |-> Str("Area"), source_organization |-> Str("FAO")]),
      Row([country_code |-> Str("KE"), product |-> Str("Maize"),
           season_year |-> Str("not-a-number"), start_date |-> Str("2018-05-01"),
           geographic_unit_name |-> NaN, indicator |-> Str("Crop Yield"),
           indicator_group |-> NaN, source_organization |-> NaN]) }

PipelineRows == RowsA \cup RowsB

\* the rows of the trees main is run on
MainRows ==
    RowsB
    \cup { Row([country_code |-> Str("KE"), product |-> Str("Maize"),
                season_year |-> Num(2019), start_date |-> NaN,
                geographic_unit_name |-> Str("Rift Valley"),
                indicator |-> Num(7), indicator_group |-> NaN,
                source_organization |-> Str("FAO")]),
            Row([country_code |-> NaN, product |-> Str("Maize"),
                season_year |-> Num(2019), start_date |-> NaN,
                geographic_unit_name |-> Str("Rift Valley"),
                indicator |-> Str("Area Planted"), indicator_group |-> NaN,
                source_organization |-> Str("FAO")]) }

SeqsUpTo(S, n) == UNION {[1..m -> S] : m \in 0..n}

\* the rows of one frame all have the columns of the file
SameColumns(rows) ==
    \A i \in 1..Len(rows), j \in 1..Len(rows) : DOMAIN rows[i] = DOMAIN rows[j]

\* the shape of a tree: for each file the walk finds, whether its name does
\* not contain 'cropdata' ("other"), pd.read_csv cannot read it ("bad") or
\* pd.read_csv reads it into a frame of n rows ("csv")
ShapeEntries(maxRows) ==
    {[kind |-> "other", n |-> 0], [kind |-> "bad", n |-> 0]}
    \cup {[kind |-> "csv", n |-> m] : m \in 0..maxRows}

RECURSIVE RowsBefore(_, _)
RowsBefore(shape, i) ==
    IF i <= 1 THEN 0 ELSE RowsBefore(shape, i - 1) + shape[i - 1].n

\* the tree of that shape whose frames hold the rows, in order
TreeOf(rows, shape) ==
    [i \in 1..Len(shape) |->
        [kind |-> shape[i].kind,
         rows |-> SubSeq(rows, RowsBefore(shape, i) + 1,
                         RowsBefore(shape, i) + shape[i].n)]]

\* the trees of at most maxFiles files that hold at most maxRows rows of R
Trees(R, maxRows, maxFiles) ==
    UNION { { t \in { TreeOf(rows, shape) :
                        shape \in { sh \in SeqsUpTo(ShapeEntries(maxRows), maxFiles) :
                                      RowsBefore(sh, Len(sh) + 1) = Len(rows) } } :
                \A i \in 1..Len(t) : SameColumns(t[i].rows) } :
            rows \in SeqsUpTo(R, maxRows) }

\* the rows of the frames read up to file f, in the order of the walk
RECURSIVE RowsUpTo(_, _)
RowsUpTo(fs, f) ==
    IF f = 0 THEN <<>>
    ELSE RowsUpTo(fs, f - 1) \o (IF fs[f].kind = "csv" THEN fs[f].rows ELSE <<>>)

AllRows(fs) == RowsUpTo(fs, Len(fs))

-----------------------------------------------------------------------------
(* Single rows, for the field extraction *)

\* marks a column the file does not have
Absent == [k |-> "absent", s |-> "", n |-> 0]

\* the row whose cells are the entries of f that are not Absent
MakeRow(f) == [c \in {d \in DOMAIN f : f[d] # Absent} |-> f[c]]

SeasonYears ==
    {Absent, NaN, Num(2019), Str("2019"), Str("not-a-number"), Str("")}
StartDates ==
    {Absent, NaN, Str("2018-05-01"), Str("05/01/2018"), Str("13/05/2018"),
     Str("2018"), Str("garbage"), Str("2018-02-30"), Num(2018)}
PeriodDates == {NaN, Str("2017-01-01"), Str("x")}
HarvestEndDates == {Absent, NaN, Str("2016")}

YearRows ==
    { MakeRow([country_code |-> Str("KE"), product |-> Str("Maize"),
               season_year |-> sy, start_date |-> sd, period_date |-> pd,
               harvest_end_date |-> hd]) :
        sy \in SeasonYears, sd \in StartDates, pd \in PeriodDates,
        hd \in HarvestEndDates }

\* a candidate of a fallback chain: absent, null, empty, non-empty
Candidates(label) == {Absent, NaN, Str(""), Str(label)}

CropRows ==
    { MakeRow([country_code |-> Str("KE"), product |-> a, cpcv2_description |-> b]) :
        a \in Candidates("Maize"), b \in Candidates("Cereals") }
SeasonRows ==
    { MakeRow([country_code |-> Str("KE"), season_name |-> a, season_type |-> b]) :
        a \in Candidates("Long Rains"), b \in Candidates("Main") }
SourceRows ==
    { MakeRow([country_code |-> Str("KE"), source_organization |-> a,
               source_document |-> b]) :
        a \in Candidates("FAO"), b \in Candidates("Census 2019") }

\* the five admin columns and geographic_unit_name: absent, null, empty or
\* a label
Admin4s == {Absent, NaN, Str("Ward 4")}
Admin3s == {Absent, Str(""), Str("Division 3")}
Admin2s == {NaN, Str("County 2")}
Admin1s == {Absent, Str("Province 1")}
Admin0s == {Absent, NaN, Str(""), Str("Kenya")}

RegionRows ==
    { MakeRow([country_code |-> Str("KE"), product |-> Str("Maize"),
               admin_4 |-> a4, admin_3 |-> a3, admin_2 |-> a2, admin_1 |-> a1,
               admin_0 |-> a0, geographic_unit_name |-> g]) :
        a4 \in Admin4s, a3 \in Admin3s, a2 \in Admin2s, a1 \in Admin1s,
        a0 \in Admin0s, g \in Candidates("Rift Valley") }

\* indicator and indicator_group: absent, null, empty or a text
Indicators ==
    {Absent, NaN, Str(""), Str("Area Harvested"), Str("Area Planted"),
     Str("PLANTING date"), Str("Crop Yield"), Str("Output Volume"),
     Str("Quantity Produced"), Str("Planted and Harvested"), Str("Price"),
     Str("Yield of harvested output at planting")}
IndicatorGroups ==
    {Absent, NaN, Str(""), Str("Area"), Str("Production"), Str("Yield"),
     Str("Quantity"), Str("Crop AREA and production"), Str("Prices")}

ClassifyRows ==
    { MakeRow([country_code |-> Str("KE"), product |-> Str("Maize"),
               season_year |-> Num(2019), indicator |-> i,
               indicator_group |-> g]) :
        i \in Indicators, g \in IndicatorGroups }

ExtractRows ==
    YearRows \cup CropRows \cup SeasonRows \cup SourceRows \cup RegionRows
    \cup ClassifyRows

\* the rows the order of processing is varied on
OrderRows ==
    { Row([country_code |-> Str("KE"), product |-> Str("Maize"),
           season_year |-> Num(2019), indicator |-> Str("Area Harvested")]),
      Row([country_code |-> Str("KE"), product |-> Str("Maize"),
           season_year |-> Num(2020), indicator |-> Str("Production")]),
      Row([country_code |-> Str("KE"), product |-> Str("Maize"),
           season_year |-> NaN, indicator |-> Num(7)]),
      Row([country_code |-> Str("UG"), product |-> NaN,
           season_year |-> Str("not-a-number"), indicator |-> NaN]) }

-----------------------------------------------------------------------------
(* The body of the row loop, lines 52-169 *)

\* what the body does with a row: continue at line 56, raise into the except
\* of line 167, or reach the update of lines 150-166 with these variables
Outcome(row) ==
    [skipped |-> RowSkipped(row),
     raises |-> ~RowSkipped(row) /\ RowRaises(row),
     x |-> Extract(row)]

InputRows == PipelineRows \cup MainRows \cup ExtractRows \cup OrderRows

\* the outcome of every row of the trees above
Outcomes == [r \in InputRows |-> Outcome(r)]

\* the update moved before the lines that can raise
HandleRowEager(inv, row) ==
    IF Outcomes[row].skipped THEN inv
    ELSE UpdateInventory(inv, Outcomes[row].x)

\* a row that raises has already created the aggregate of its key
HandleRowKeyOnError(inv, row) ==
    IF Outcomes[row].skipped THEN inv
    ELSE IF Outcomes[row].raises
         THEN [k \in DOMAIN inv \cup {KeyOf(Outcomes[row].x)} |-> Lookup(inv, k)]
         ELSE UpdateInventory(inv, Outcomes[row].x)

\* the inventory after the row
HandleRow(inv, row) ==
    IF Outcomes[row].skipped \/ Outcomes[row].raises THEN inv
    ELSE UpdateInventory(inv, Outcomes[row].x)

\* the error counter after the row
CountError(n, row) == IF Outcomes[row].raises THEN n + 1 ELSE n

-----------------------------------------------------------------------------
(* create_crop_inventory *)

\* the pass run on its own: by main with the data directory in place,
\* --skip_processing unset and the outputs of an earlier run on disk
PassArgs == [data_dir |-> TRUE, skip_processing |-> FALSE]
PassDisk == [dir |-> TRUE, inventory_json |-> "old", summary_csv |-> "old",
             country_summary_csv |-> "old"]

InitPass(fs) ==
    /\ files = fs
    /\ fi = 1
    /\ ri = 0
    /\ inventory = <<>>
    /\ key_order = <<>>
    /\ file_count = 0
    /\ row_count = 0
    /\ error_count = 0
    /\ country_set = {}
    /\ crop_set = {}
    /\ result = <<>>
    /\ summary_df = <<>>
    /\ country_summary = <<>>
    /\ doneB = {}
    /\ invB = <<>>
    /\ errB = 0

Init ==
    /\ \E fs \in Trees(PipelineRows, MaxRows, MaxFiles) : InitPass(fs)
    /\ pc = "walk"
    /\ args = PassArgs
    /\ disk = PassDisk

InWalk == pc = "walk" /\ fi <= Len(files)
AtFile == InWalk /\ ri = 0
AtRow == InWalk /\ ri >= 1
CurRow == files[fi].rows[ri]

passVars == <<inventory, key_order, file_count, row_count, error_count,
              country_set, crop_set>>
mainVars == <<args, disk, summary_df, country_summary>>
secondVars == <<doneB, invB, errB>>

\* line 41: the name of the file does not match
SkipFile ==
    /\ AtFile
    /\ files[fi].kind = "other"
    /\ fi' = fi + 1
    /\ UNCHANGED <<files, ri, passVars, result, pc, mainVars, secondVars>>

\* lines 47, 176-177: pd.read_csv raises, the error is printed
ReadFails ==
    /\ AtFile
    /\ files[fi].kind = "bad"
    /\ fi' = fi + 1
    /\ UNCHANGED <<files, ri, passVars, result, pc, mainVars, secondVars>>

\* lines 47-48 (and 171 when the frame has no rows)
ReadFile ==
    /\ AtFile
    /\ files[fi].kind = "csv"
    /\ row_count' = row_count + Len(files[fi].rows)
    /\ IF Len(files[fi].rows) = 0
       THEN /\ file_count' = file_count + 1
            /\ fi' = fi + 1
            /\ ri' = 0
       ELSE /\ file_count' = file_count
            /\ fi' = fi
            /\ ri' = 1
    /\ UNCHANGED <<files, inventory, key_order, error_count, country_set,
                   crop_set, result, pc, mainVars, secondVars>>

\* the end of one iteration of the row loop; line 171 after the last row
NextRow ==
    IF ri = Len(files[fi].rows)
    THEN /\ file_count' = file_count + 1
         /\ fi' = fi + 1
         /\ ri' = 0
    ELSE /\ file_count' = file_count
         /\ fi' = fi
         /\ ri' = ri + 1

\* lines 53-56: no country code, continue
SkipRow ==
    /\ AtRow
    /\ Outcomes[CurRow].skipped
    /\ NextRow
    /\ UNCHANGED <<files, inventory, key_order, row_count, error_count,
                   country_set, crop_set, result, pc, mainVars, secondVars>>

\* lines 58-67 then an exception in lines 121-141, caught at 167-169
RowError ==
    /\ AtRow
    /\ Outcomes[CurRow].raises
    /\ country_set' = country_set \cup {Outcomes[CurRow].x.country_code}
    /\ crop_set' = crop_set \cup {Outcomes[CurRow].x.crop}
    /\ error_count' = CountError(error_count, CurRow)
    /\ inventory' = HandleRow(inventory, CurRow)
    /\ NextRow
    /\ UNCHANGED <<files, key_order, row_count, result, pc, mainVars, secondVars>>

\* lines 58-166: the row is folded into the aggregate of its key
AggregateRow ==
    /\ AtRow
    /\ ~Outcomes[CurRow].skipped
    /\ ~Outcomes[CurRow].raises
    /\ country_set' = country_set \cup {Outcomes[CurRow].x.country_code}
    /\ crop_set' = crop_set \cup {Outcomes[CurRow].x.crop}
    /\ error_count' = CountError(error_count, CurRow)
    /\ inventory' = HandleRow(inventory, CurRow)
    /\ key_order' = IF KeyOf(Outcomes[CurRow].x) \in DOMAIN inventory THEN key_order
                    ELSE Append(key_order, KeyOf(Outcomes[CurRow].x))
    /\ NextRow
    /\ UNCHANGED <<files, row_count, result, pc, mainVars, secondVars>>

WalkDone == pc = "walk" /\ fi > Len(files)

\* lines 179-192: every set becomes a sorted list, the dict is returned
SortSets ==
    /\ WalkDone
    /\ ConvertOk(inventory)
    /\ result' = Converted(inventory)
    /\ pc' = "returned"
    /\ UNCHANGED <<files, fi, ri, passVars, mainVars, secondVars>>

\* lines 182-186: sorted() raises TypeError, no dict is returned
SortRaises ==
    /\ WalkDone
    /\ ~ConvertOk(inventory)
    /\ pc' = "raised"
    /\ UNCHANGED <<files, fi, ri, passVars, result, mainVars, secondVars>>

Next ==
    \/ SkipFile
    \/ ReadFails
    \/ ReadFile
    \/ SkipRow
    \/ RowError
    \/ AggregateRow
    \/ SortSets
    \/ SortRaises

Spec == Init /\ [][Next]_vars

-----------------------------------------------------------------------------
(* create_summary_dataframe, lines 194-240 *)

\* sep.join(labels)
RECURSIVE Join(_, _)
Join(labels, sep) ==
    IF Len(labels) = 0 THEN ""
    ELSE IF Len(labels) = 1 THEN labels[1].s
    ELSE labels[1].s \o sep \o Join(Tail(labels), sep)

\* the order of inventory.items() and crops.items(): the countries in the
\* order they were first inserted, the crops of a country in theirs
RECURSIVE NestedOrder(_)
NestedOrder(order) ==
    IF order = <<>> THEN <<>>
    ELSE SelectSeq(order, LAMBDA k : k[1] = order[1][1])
         \o NestedOrder(SelectSeq(order, LAMBDA k : k[1] # order[1][1]))

Count(b) == IF b THEN 1 ELSE 0

indicators_available(info) ==
    (IF info.area_planted THEN <<Str("Area Planted")>> ELSE <<>>)
    \o (IF info.area_harvested THEN <<Str("Area Harvested")>> ELSE <<>>)
    \o (IF info.quantity_produced THEN <<Str("Quantity Produced")>> ELSE <<>>)
    \o (IF info.production THEN <<Str("Production")>> ELSE <<>>)

\* min(l) and max(l) of a list of integers
ListMin(l) == CHOOSE x \in {l[i] : i \in 1..Len(l)} : \A i \in 1..Len(l) : x <= l[i]
ListMax(l) == CHOOSE x \in {l[i] : i \in 1..Len(l)} : \A i \in 1..Len(l) : x >= l[i]

year_min(info) == IF Len(info.years) > 0 THEN Num(ListMin(info.years)) ELSE PyNone

\* the first year of the list
year_max_first(info) == IF Len(info.years) > 0 THEN Num(info.years[1]) ELSE PyNone

year_max(info) == IF Len(info.years) > 0 THEN Num(ListMax(info.years)) ELSE PyNone

year_range(info) ==
    IF Len(info.years) > 0
    THEN ToString(ListMin(info.years)) \o "-" \o ToString(ListMax(info.years))
    ELSE "N/A"

\* production is left out of the sum
completeness_without_production(info) ==
    ((Count(info.area_planted) + Count(info.area_harvested)
      + Count(info.quantity_produced)) * 100) \div 4

\* sum([...]) / 4.0 * 100: a multiple of 25.0, kept as an integer
completeness(info) ==
    ((Count(info.area_planted) + Count(info.area_harvested)
      + Count(info.quantity_produced) + Count(info.production)) * 100) \div 4

\* the list is joined when it has fewer than 3 sources
data_sources_under_3(info) ==
    IF Len(info.data_sources) < 3 THEN Join(info.data_sources, "; ")
    ELSE ToString(Len(info.data_sources)) \o " sources"

data_sources(info) ==
    IF Len(info.data_sources) <= 3 THEN Join(info.data_sources, "; ")
    ELSE ToString(Len(info.data_sources)) \o " sources"

SummaryRecord(key, info) ==
    [country_code |-> key[1],
     crop |-> key[2],
     year_count |-> Len(info.years),
     year_min |-> year_min(info),
     year_max |-> year_max(info),
     year_range |-> year_range(info),
     years |-> info.years,
     seasonality |-> IF Len(info.seasonality) > 0 THEN Join(info.seasonality, ", ")
                     ELSE "N/A",
     region_count |-> Len(info.regions),
     has_area_planted |-> info.area_planted,
     has_area_harvested |-> info.area_harvested,
     has_quantity |-> info.quantity_produced,
     has_production |-> info.production,
     indicators_available |-> Join(indicators_available(info), ", "),
     completeness |-> completeness(info),
     data_sources |-> data_sources(info),
     indicator_count |-> Len(info.indicators)]

\* one record for the first crop of each country only
create_summary_dataframe_first_crop(inv, order) ==
    LET firsts == SelectSeq(order, LAMBDA k :
                      \A i \in 1..Len(order) :
                          order[i][1] = k[1] =>
                              (CHOOSE j \in 1..Len(order) : order[j] = k) <= i)
    IN [i \in 1..Len(firsts) |-> SummaryRecord(firsts[i], inv[firsts[i]])]

create_summary_dataframe(inv, order) ==
    [i \in 1..Len(order) |-> SummaryRecord(NestedOrder(order)[i], inv[NestedOrder(order)[i]])]

-----------------------------------------------------------------------------
(* The rollup by country, lines 66-78 of main *)

\* the rows of the frame in the group of a country code
GroupOf(df, c) == {i \in 1..Len(df) : df[i].country_code = c}

\* the values of a column in a group that are not null
NotNull(df, g, col) == {df[i][col].n : i \in {j \in g : df[j][col].k = "num"}}

\* 'nunique': the number of distinct values
AggNunique(df, g, col) == Cardinality({df[i][col] : i \in g})

\* 'min' and 'max' skip the nulls; a group of nulls gives a null
AggMin(df, g, col) ==
    IF NotNull(df, g, col) = {} THEN NaN
    ELSE Num(CHOOSE x \in NotNull(df, g, col) : \A y \in NotNull(df, g, col) : x <= y)
AggMax(df, g, col) ==
    IF NotNull(df, g, col) = {} THEN NaN
    ELSE Num(CHOOSE x \in NotNull(df, g, col) : \A y \in NotNull(df, g, col) : x >= y)

\* 'sum'
RECURSIVE AggSum(_, _, _)
AggSum(df, g, col) ==
    IF g = {} THEN 0
    ELSE LET i == CHOOSE j \in g : TRUE
         IN df[i][col] + AggSum(df, g \ {i}, col)

RECURSIVE GCD(_, _)
GCD(a, b) == IF b = 0 THEN a ELSE GCD(b, a % b)

\* the quotient a / b, in lowest terms
Fraction(a, b) == [num |-> a \div GCD(a, b), den |-> b \div GCD(a, b)]

\* the sum is divided by the number of rows of the whole frame
AggMeanOfFrame(df, g, col) == Fraction(AggSum(df, g, col), Len(df))

\* 'mean': the sum over the number of rows of the group
AggMean(df, g, col) == Fraction(AggSum(df, g, col), Cardinality(g))

\* summary_df.groupby('country_code').agg({...}).reset_index(): one row for
\* each country code, in sorted order
groupby_agg(df) ==
    LET codes == SortedVals({df[i].country_code : i \in 1..Len(df)})
    IN [n \in 1..Len(codes) |->
          [country_code |-> codes[n],
           crop |-> AggNunique(df, GroupOf(df, codes[n]), "crop"),
           year_min |-> AggMin(df, GroupOf(df, codes[n]), "year_min"),
           year_max |-> AggMax(df, GroupOf(df, codes[n]), "year_max"),
           region_count |-> AggSum(df, GroupOf(df, codes[n]), "region_count"),
           completeness |-> AggMean(df, GroupOf(df, codes[n]), "completeness")]]

\* the fallback table of load_country_mapping
FallbackMapping ==
    [c \in {"USA", "CAN", "MEX", "BRA", "ARG", "CHN", "IND", "JPN", "GBR",
             "FRA", "DEU"} |->
        CASE c = "USA" -> "United States"
          [] c = "CAN" -> "Canada"
          [] c = "MEX" -> "Mexico"
          [] c = "BRA" -> "Brazil"
          [] c = "ARG" -> "Argentina"
          [] c = "CHN" -> "China"
          [] c = "IND" -> "India"
          [] c = "JPN" -> "Japan"
          [] c = "GBR" -> "United Kingdom"
          [] c = "FRA" -> "France"
          [] c = "DEU" -> "Germany"]

\* the mapping read from a file with the columns ISO2_Code and ISO3_Code
FileMapping == [c \in {"KE", "UG"} |-> IF c = "KE" THEN "KEN" ELSE "UGA"]

\* what load_country_mapping(args.country_mapping) can return: the mapping
\* of the file, or the fallback table without a file
load_country_mapping == {FileMapping, FallbackMapping}

\* country_mapping.get(x, f"Country {x}")
country_name(mapping, x) ==
    IF x.s \in DOMAIN mapping THEN mapping[x.s] ELSE "Country " \o x.s

\* the frame written to country_summary.csv
CountrySummary(df, mapping) ==
    [n \in 1..Len(groupby_agg(df)) |->
        [country_code |-> groupby_agg(df)[n].country_code,
         crop |-> groupby_agg(df)[n].crop,
         year_min |-> groupby_agg(df)[n].year_min,
         year_max |-> groupby_agg(df)[n].year_max,
         region_count |-> groupby_agg(df)[n].region_count,
         completeness |-> groupby_agg(df)[n].completeness,
         country_name |-> country_name(mapping, groupby_agg(df)[n].country_code)]]

-----------------------------------------------------------------------------
(* main, lines 20-85 *)

walkVars == <<files, fi, ri, passVars, result>>

AtMain(p) == pc = p

\* the test of line 21 moved after the os.makedirs of line 26
MissingDataDirAfterMakedirs ==
    /\ AtMain("main")
    /\ ~args.data_dir
    /\ disk' = [disk EXCEPT !.dir = TRUE]
    /\ pc' = "exit1"
    /\ UNCHANGED <<walkVars, args, summary_df, country_summary, secondVars>>

\* lines 21-23: the data directory does not exist
MissingDataDir ==
    /\ AtMain("main")
    /\ ~args.data_dir
    /\ pc' = "exit1"
    /\ UNCHANGED <<walkVars, mainVars, secondVars>>

\* lines 21-31: the data directory exists, the output directory is created
MakeOutputDir ==
    /\ AtMain("main")
    /\ args.data_dir
    /\ disk' = [disk EXCEPT !.dir = TRUE]
    /\ pc' = "paths"
    /\ UNCHANGED <<walkVars, args, summary_df, country_summary, secondVars>>

UseExisting ==
    /\ args.skip_processing
    /\ disk.inventory_json # "none"
    /\ disk.summary_csv # "none"

\* lines 34-35: the existing files are used
SkipProcessing ==
    /\ AtMain("paths")
    /\ UseExisting
    /\ pc' = "dashboard"
    /\ UNCHANGED <<walkVars, mainVars, secondVars>>

\* lines 36-51: create_crop_inventory(args.data_dir) is called
StartProcessing ==
    /\ AtMain("paths")
    /\ ~UseExisting
    /\ pc' = "walk"
    /\ UNCHANGED <<walkVars, mainVars, secondVars>>

\* lines 54-56: json.dump of the returned inventory
SaveInventory ==
    /\ AtMain("returned")
    /\ disk' = [disk EXCEPT !.inventory_json = "new"]
    /\ pc' = "saved_inventory"
    /\ UNCHANGED <<walkVars, args, summary_df, country_summary, secondVars>>

\* lines 59-63: the summary frame is built and written
SaveSummary ==
    /\ AtMain("saved_inventory")
    /\ summary_df' = create_summary_dataframe(result, key_order)
    /\ disk' = [disk EXCEPT !.summary_csv = "new"]
    /\ pc' = "saved_summary"
    /\ UNCHANGED <<walkVars, args, country_summary, secondVars>>

\* lines 66-81: the rollup by country_code is built and written
SaveCountrySummary ==
    /\ AtMain("saved_summary")
    /\ Len(summary_df) > 0
    /\ \E mapping \in load_country_mapping :
          country_summary' = CountrySummary(summary_df, mapping)
    /\ disk' = [disk EXCEPT !.country_summary_csv = "new"]
    /\ pc' = "dashboard"
    /\ UNCHANGED <<walkVars, args, summary_df, secondVars>>

\* lines 66, 83-85: a frame built from no records has no column
\* 'country_code', groupby raises KeyError and main exits with code 1
RollupRaises ==
    /\ AtMain("saved_summary")
    /\ Len(summary_df) = 0
    /\ pc' = "exit1"
    /\ UNCHANGED <<walkVars, mainVars, secondVars>>

\* lines 51, 83-85: create_crop_inventory raised, main exits with code 1
ProcessingFails ==
    /\ AtMain("raised")
    /\ pc' = "exit1"
    /\ UNCHANGED <<walkVars, mainVars, secondVars>>

MaxMainFiles == 1
MaxMainRows == 2

DiskStates ==
    {[dir |-> FALSE, inventory_json |-> "none", summary_csv |-> "none",
      country_summary_csv |-> "none"]}
    \cup [dir : {TRUE}, inventory_json : {"none", "old"},
          summary_csv : {"none", "old"}, country_summary_csv : {"none", "old"}]

\* a data directory that does not exist holds no file
InitMain ==
    /\ \E fs \in Trees(MainRows, MaxMainRows, MaxMainFiles) : InitPass(fs)
    /\ pc = "main"
    /\ args \in [data_dir : BOOLEAN, skip_processing : BOOLEAN]
    /\ ~args.data_dir => files = <<>>
    /\ disk \in DiskStates

NextMain ==
    \/ MissingDataDir
    \/ MakeOutputDir
    \/ SkipProcessing
    \/ StartProcessing
    \/ SkipFile
    \/ ReadFails
    \/ ReadFile
    \/ SkipRow
    \/ RowError
    \/ AggregateRow
    \/ SortSets
    \/ SortRaises
    \/ SaveInventory
    \/ SaveSummary
    \/ SaveCountrySummary
    \/ RollupRaises
    \/ ProcessingFails

SpecMain == InitMain /\ [][NextMain]_vars

-----------------------------------------------------------------------------
(* The projection and the rollup, on the inventory of a finished pass *)

\* an inventory has at most MaxKeys (country_code, crop) keys
MaxKeys == 2

ProjectKeys ==
    {<<Str("KE"), Str("Maize")>>, <<Str("KE"), Str("Beans")>>,
     <<Str("UG"), Str("Maize")>>}

\* the aggregate the pass builds from rows with these years, booleans,
\* regions and sources
Aggregate(ys, fl, rs, ss) ==
    [years |-> ys, seasonality |-> {Str("Annual")},
     area_planted |-> fl[1], area_harvested |-> fl[2],
     quantity_produced |-> fl[3], production |-> fl[4],
     regions |-> rs, data_sources |-> ss,
     indicators |-> {Str("Area Harvested")}]

\* (area_planted, area_harvested, quantity_produced, production)
FlagCombos ==
    {<<FALSE, FALSE, FALSE, FALSE>>, <<TRUE, FALSE, FALSE, FALSE>>,
     <<FALSE, TRUE, FALSE, FALSE>>, <<FALSE, FALSE, TRUE, FALSE>>,
     <<FALSE, FALSE, FALSE, TRUE>>, <<TRUE, FALSE, FALSE, TRUE>>,
     <<TRUE, TRUE, TRUE, FALSE>>, <<TRUE, TRUE, TRUE, TRUE>>}

ThreeSources == {Str("WFP"), Str("FAO"), Str("USAID")}
FourSources == ThreeSources \cup {Str("IFPRI")}

ProjectAggregates ==
    { Aggregate({2019}, fl, {Str("National")}, {Str("FAO")}) : fl \in FlagCombos }
    \cup { Aggregate(ys, <<FALSE, TRUE, FALSE, FALSE>>,
                      {Str("Rift Valley"), Str("Coast")}, ss) :
              ys \in {{}, {2018, 2020}}, ss \in {ThreeSources, FourSources} }

\* the orders in which the keys can have been inserted
InsertionOrders(ks) ==
    {o \in [1..Cardinality(ks) -> ks] :
        \A i \in DOMAIN o, j \in DOMAIN o : o[i] = o[j] => i = j}

\* create_crop_inventory has returned an inventory of at most MaxKeys keys
InitProject ==
    /\ \E ks \in {k \in SUBSET ProjectKeys : Cardinality(k) <= MaxKeys} :
          /\ inventory \in [ks -> ProjectAggregates]
          /\ key_order \in InsertionOrders(ks)
          /\ country_set = {k[1] : k \in ks}
          /\ crop_set = {k[2] : k \in ks}
    /\ result = Converted(inventory)
    /\ files = <<>>
    /\ fi = 1
    /\ ri = 0
    /\ file_count = 0
    /\ row_count = 0
    /\ error_count = 0
    /\ summary_df = <<>>
    /\ country_summary = <<>>
    /\ doneB = {}
    /\ invB = <<>>
    /\ errB = 0
    /\ pc = "returned"
    /\ args = PassArgs
    /\ disk = PassDisk

NextProject ==
    \/ SaveInventory
    \/ SaveSummary
    \/ SaveCountrySummary
    \/ RollupRaises

SpecProject == InitProject /\ [][NextProject]_vars

-----------------------------------------------------------------------------
(* The pass on a tree with one file of one row *)

InitRow ==
    /\ \E r \in ExtractRows : InitPass(<<[kind |-> "csv", rows |-> <<r>>]>>)
    /\ pc = "walk"
    /\ args = PassArgs
    /\ disk = PassDisk

NextOneRow ==
    \/ ReadFile
    \/ AggregateRow
    \/ SortSets

SpecRow == InitRow /\ [][NextOneRow]_vars

-----------------------------------------------------------------------------
(* The pass, then a second pass over the same rows in any other order *)

MaxOrderFiles == 2
MaxOrderRows == 3

\* the second pass handles one more row, any row it has not handled yet
ReplayRow ==
    /\ WalkDone
    /\ \E i \in (1..Len(AllRows(files))) \ doneB :
        /\ invB' = HandleRow(invB, AllRows(files)[i])
        /\ errB' = CountError(errB, AllRows(files)[i])
        /\ doneB' = doneB \cup {i}
    /\ UNCHANGED <<walkVars, pc, mainVars>>

InitOrder ==
    /\ \E fs \in {t \in Trees(OrderRows, MaxOrderRows, MaxOrderFiles) :
                    \A i \in 1..Len(t) : t[i].kind = "csv"} : InitPass(fs)
    /\ pc = "walk"
    /\ args = PassArgs
    /\ disk = PassDisk

NextOrder ==
    \/ ReadFile
    \/ RowError
    \/ AggregateRow
    \/ ReplayRow

SpecOrder == InitOrder /\ [][NextOrder]_vars

-----------------------------------------------------------------------------
(* Properties *)

KEMaize == <<Str("KE"), Str("Maize")>>

\* the rows the walk has been through, in order
Processed ==
    IF fi > Len(files) THEN AllRows(files)
    ELSE RowsUpTo(files, fi - 1)
         \o (IF ri >= 1 THEN SubSeq(files[fi].rows, 1, ri - 1) ELSE <<>>)

\* the positions of the rows that reached the update without an error
Contributing ==
    {i \in 1..Len(Processed) :
        ~Outcomes[Processed[i]].skipped /\ ~Outcomes[Processed[i]].raises}

Fields(i) == Outcomes[Processed[i]].x

RowsOfKey(k) == {i \in Contributing : KeyOf(Fields(i)) = k}

\* C1: order-independence.  When a second pass has processed the same rows
\* in any other order, its inventory has the same keys as the first pass's
\* and, for each key, equal sets and equal booleans.
OrderIndependence ==
    (WalkDone /\ doneB = 1..Len(AllRows(files))) =>
        /\ DOMAIN invB = DOMAIN inventory
        /\ \A k \in DOMAIN inventory : invB[k] = inventory[k]

\* two rows of one key with different flags and years went through both
\* passes, the second pass in its own order
OrderIndependenceWitness ==
    /\ WalkDone
    /\ doneB = 1..Len(AllRows(files))
    /\ Len(AllRows(files)) >= 3
    /\ KEMaize \in DOMAIN invB
    /\ invB[KEMaize].years = {2019, 2020}
    /\ invB[KEMaize].area_harvested
    /\ invB[KEMaize].production

\* C2: monotonicity.  Over every step of the pass each key stays, each
\* boolean that was true stays true, and each set only grows.
Monotone ==
    [][\A k \in DOMAIN inventory :
          /\ k \in DOMAIN inventory'
          /\ inventory[k].area_planted => inventory'[k].area_planted
          /\ inventory[k].area_harvested => inventory'[k].area_harvested
          /\ inventory[k].quantity_produced => inventory'[k].quantity_produced
          /\ inventory[k].production => inventory'[k].production
          /\ inventory[k].years \subseteq inventory'[k].years
          /\ inventory[k].seasonality \subseteq inventory'[k].seasonality
          /\ inventory[k].regions \subseteq inventory'[k].regions
          /\ inventory[k].data_sources \subseteq inventory'[k].data_sources
          /\ inventory[k].indicators \subseteq inventory'[k].indicators]_vars

\* an aggregate took a row that sets production and a row that does not:
\* the flag of the one survived the other
MonotoneWitness ==
    /\ KEMaize \in DOMAIN inventory
    /\ inventory[KEMaize].production
    /\ inventory[KEMaize].area_harvested
    /\ ~inventory[KEMaize].area_planted
    /\ Cardinality(inventory[KEMaize].indicators) >= 2

\* C3: the aggregate of a key is the fold over exactly the rows extracted
\* to that key and processed without error: the keys are the keys of those
\* rows, years is the set of their known years, seasonality, regions and
\* data_sources are the sets of their seasons, regions and sources, and each
\* boolean is the OR of their booleans.
ReferenceFold ==
    /\ DOMAIN inventory = {KeyOf(Fields(i)) : i \in Contributing}
    /\ \A k \in DOMAIN inventory :
        /\ inventory[k].years
              = {Fields(i).year.n : i \in {j \in RowsOfKey(k) : Fields(j).year.k = "num"}}
        /\ inventory[k].seasonality = {Fields(i).season : i \in RowsOfKey(k)}
        /\ inventory[k].regions = {Fields(i).region : i \in RowsOfKey(k)}
        /\ inventory[k].data_sources = {Fields(i).source : i \in RowsOfKey(k)}
        /\ inventory[k].area_planted
              = (\E i \in RowsOfKey(k) : Fields(i).flags.area_planted)
        /\ inventory[k].area_harvested
              = (\E i \in RowsOfKey(k) : Fields(i).flags.area_harvested)
        /\ inventory[k].quantity_produced
              = (\E i \in RowsOfKey(k) : Fields(i).flags.quantity_produced)
        /\ inventory[k].production
              = (\E i \in RowsOfKey(k) : Fields(i).flags.production)

\* the two rows of the scenario were folded into (KE, Maize)
ReferenceFoldWitness ==
    /\ WalkDone
    /\ KEMaize \in DOMAIN inventory
    /\ Cardinality(RowsOfKey(KEMaize)) = 2
    /\ inventory[KEMaize].years = {2019, 2020}
    /\ inventory[KEMaize].area_harvested
    /\ inventory[KEMaize].production
    /\ ~inventory[KEMaize].area_planted
    /\ ~inventory[KEMaize].quantity_produced

\* the candidate files pd.read_csv failed on so far
FailedFiles == {f \in 1..(fi - 1) : f <= Len(files) /\ files[f].kind = "bad"}

\* the rows so far whose processing raised
FailedRows == {i \in 1..Len(Processed) : Outcomes[Processed[i]].raises}

\* C4: a candidate file that cannot be read contributes nothing, the walk
\* goes on, and the error counter is incremented exactly once for it: the
\* counter is the number of failed files plus the number of failed rows.
FileErrorCounted ==
    /\ DOMAIN inventory = {KeyOf(Fields(i)) : i \in Contributing}
    /\ WalkDone =>
          file_count = Cardinality({f \in 1..Len(files) : files[f].kind = "csv"})
    /\ error_count = Cardinality(FailedFiles) + Cardinality(FailedRows)

NoneWritten ==
    /\ disk.inventory_json # "new"
    /\ disk.summary_csv # "new"
    /\ disk.country_summary_csv # "new"

AllWritten ==
    /\ disk.inventory_json = "new"
    /\ disk.summary_csv = "new"
    /\ disk.country_summary_csv = "new"

\* C5: persistence is all-or-nothing: a run that ends with exit code 1 has
\* written none of the three output files, and a run that reaches the
\* dashboard has written none of them or all three.
AllOrNothing ==
    /\ pc = "exit1" => NoneWritten
    /\ pc = "dashboard" => NoneWritten \/ AllWritten

\* C6: when the processing of a row raises, the error counter grows by
\* exactly one, the inventory is left as it was, and the walk goes on with
\* the next row of the file, or with the next file after the last row.
RowErrorIsLocal ==
    [][(AtRow /\ Outcomes[CurRow].raises) =>
          /\ error_count' = error_count + 1
          /\ inventory' = inventory
          /\ key_order' = key_order
          /\ pc' = "walk"
          /\ IF ri < Len(files[fi].rows)
             THEN fi' = fi /\ ri' = ri + 1
             ELSE fi' = fi + 1 /\ ri' = 0]_vars

\* a row raised and a row after it was still folded into the inventory
RowErrorIsLocalWitness ==
    /\ WalkDone
    /\ error_count >= 1
    /\ \E i \in FailedRows : \E j \in Contributing :
          /\ i < j
          /\ KeyOf(Fields(j)) \in DOMAIN inventory

-----------------------------------------------------------------------------
(* Properties of the field extraction, on a tree of one file of one row *)

TheRow == files[1].rows[1]
RowDone == fi = 2

\* the value of a column, missing when the file has no such column
CellOf(row, col) == IF col \in DOMAIN row THEN row[col] ELSE NaN

ParsesAsDate(v) == \E i \in 1..Len(DateFormats) : strptimeOk(v, DateFormats[i])

\* the year under the first format, in the order tried, that parses v
YearOfDate(v) ==
    strptimeYear(v, DateFormats[CHOOSE i \in 1..Len(DateFormats) :
                                    /\ strptimeOk(v, DateFormats[i])
                                    /\ \A j \in 1..(i - 1) : ~strptimeOk(v, DateFormats[j])])

DateFieldOrder == <<"start_date", "period_date", "harvest_end_date">>

ParsingFields(row) ==
    {i \in 1..Len(DateFieldOrder) : ParsesAsDate(CellOf(row, DateFieldOrder[i]))}

FirstDateYear(row) ==
    YearOfDate(CellOf(row, DateFieldOrder[CHOOSE i \in ParsingFields(row) :
                                              \A j \in ParsingFields(row) : i <= j]))

SeasonYearMissing(row) == isna(CellOf(row, "season_year"))
SeasonYearUnparsable(row) ==
    ~isna(CellOf(row, "season_year")) /\ ~IntOk(CellOf(row, "season_year"))

\* C7: when season_year is present but does not parse as an integer, the
\* year is the year of the first of start_date, period_date, harvest_end_date
\* whose value parses under one of the four formats; later fields are not
\* consulted.
YearFromFirstDate ==
    (RowDone /\ SeasonYearUnparsable(TheRow) /\ ParsingFields(TheRow) # {}) =>
        \A k \in DOMAIN inventory : inventory[k].years = {FirstDateYear(TheRow)}

\* start_date does not parse, period_date does and wins over harvest_end_date
YearFromFirstDateWitness ==
    /\ RowDone
    /\ CellOf(TheRow, "season_year") = Str("not-a-number")
    /\ CellOf(TheRow, "start_date") = Str("garbage")
    /\ CellOf(TheRow, "period_date") = Str("2017-01-01")
    /\ CellOf(TheRow, "harvest_end_date") = Str("2016")
    /\ KEMaize \in DOMAIN inventory
    /\ inventory[KEMaize].years = {2017}

\* C8: a missing season_year is treated like an unusable one: when
\* season_year is absent or null and a date field parses, the year of the
\* first such field is added to the years of the aggregate.
YearFromDateWhenSeasonYearMissing ==
    (RowDone /\ SeasonYearMissing(TheRow) /\ ParsingFields(TheRow) # {}) =>
        \A k \in DOMAIN inventory : inventory[k].years = {FirstDateYear(TheRow)}

\* the first of two candidates that is a non-empty string, else the default
FirstNonEmpty(row, first, second, dflt) ==
    IF CellOf(row, first).k = "str" /\ CellOf(row, first).s # ""
    THEN CellOf(row, first)
    ELSE IF CellOf(row, second).k = "str" /\ CellOf(row, second).s # ""
         THEN CellOf(row, second)
         ELSE Str(dflt)

-----------------------------------------------------------------------------
(* Properties of rows without a year, in the pass *)

YearUnknown(row) ==
    /\ SeasonYearMissing(row) \/ SeasonYearUnparsable(row)
    /\ ParsingFields(row) = {}

\* C9: a row with a country code whose year fields are all missing or
\* unparseable (and whose classification raises nothing) is not an error:
\* the error counter is unchanged, the years of its aggregate are unchanged,
\* and its season, region and source are in the aggregate afterwards.
NoYearIsNoError ==
    [][(/\ AtRow
        /\ ~Outcomes[CurRow].skipped
        /\ ~Outcomes[CurRow].raises
        /\ YearUnknown(CurRow)) =>
          LET k == KeyOf(Outcomes[CurRow].x)
          IN /\ error_count' = error_count
             /\ k \in DOMAIN inventory'
             /\ inventory'[k].years = Lookup(inventory, k).years
             /\ Outcomes[CurRow].x.season \in inventory'[k].seasonality
             /\ Outcomes[CurRow].x.region \in inventory'[k].regions
             /\ Outcomes[CurRow].x.source \in inventory'[k].data_sources]_vars

UGUnknown == <<Str("UG"), Str("Unknown Crop")>>

\* the row of UG with season_year 'not-a-number' and no date column was folded
NoYearIsNoErrorWitness ==
    /\ UGUnknown \in DOMAIN inventory
    /\ inventory[UGUnknown].years = {}
    /\ inventory[UGUnknown].seasonality = {Str("Annual")}
    /\ inventory[UGUnknown].regions = {Str("National")}
    /\ inventory[UGUnknown].data_sources = {Str("Unknown")}
    /\ error_count = 0

-----------------------------------------------------------------------------
(* Properties of the region, on a tree of one file of one row *)

NonEmptyStr(v) == v.k = "str" /\ v.s # ""

AdminOrder == <<"admin_4", "admin_3", "admin_2", "admin_1", "admin_0">>

FilledAdmins(row) ==
    {i \in 1..Len(AdminOrder) : NonEmptyStr(CellOf(row, AdminOrder[i]))}

\* the first filled admin level, finest first, else a filled
\* geographic_unit_name, else "National"
ExpectedRegion(row) ==
    IF FilledAdmins(row) # {}
    THEN CellOf(row, AdminOrder[CHOOSE i \in FilledAdmins(row) :
                                    \A j \in FilledAdmins(row) : i <= j])
    ELSE IF NonEmptyStr(CellOf(row, "geographic_unit_name"))
         THEN CellOf(row, "geographic_unit_name")
         ELSE Str("National")

\* C11: the region of a row is the first of admin_4 .. admin_0 that is not
\* missing and not empty, else geographic_unit_name when that is not missing
\* and not empty, else "National"; a row with a country code that raises no
\* error adds exactly that one label to the regions of its aggregate, and a
\* null geographic_unit_name never gets there.
RegionChain ==
    RowDone =>
        \A k \in DOMAIN inventory : inventory[k].regions = {ExpectedRegion(TheRow)}

-----------------------------------------------------------------------------
(* Properties of rows without a country code, in the pass *)

\* the rows of the frame of file f that have a country code
CountedRows(f) ==
    {i \in 1..Len(files[f].rows) : ~Outcomes[files[f].rows[i]].skipped}

\* the step over such a row changes nothing in the inventory or the counter
SkipChangesNothing ==
    (AtRow /\ Outcomes[CurRow].skipped) =>
        /\ inventory' = inventory
        /\ key_order' = key_order
        /\ error_count' = error_count

\* C12: a row whose country_code is missing is excluded entirely: the step
\* over it leaves the inventory and the error counter as they were, and the
\* count of rows processed grows, when a frame is read, by the number of its
\* rows that have a country code.
SkippedRowExcluded ==
    [][/\ SkipChangesNothing
       /\ row_count' = row_count
                         + (IF AtFile /\ files[fi].kind = "csv"
                            THEN Cardinality(CountedRows(fi)) ELSE 0)]_vars

-----------------------------------------------------------------------------
(* Properties of the classification, on a tree of one file of one row *)

\* the cell is a text that contains the word, whatever the case
HasWord(row, col, w) ==
    /\ CellOf(row, col).k = "str"
    /\ Contains(w, lower(CellOf(row, col).s))

ExpectedText(row) ==
    [area_planted |-> \/ HasWord(row, "indicator", "planted")
                      \/ HasWord(row, "indicator", "planting"),
     area_harvested |-> \/ HasWord(row, "indicator", "harvested")
                        \/ HasWord(row, "indicator", "harvesting"),
     production |-> \/ HasWord(row, "indicator", "yield")
                    \/ HasWord(row, "indicator", "production"),
     quantity_produced |-> \/ HasWord(row, "indicator", "quantity")
                           \/ HasWord(row, "indicator", "volume")
                           \/ HasWord(row, "indicator", "output")]

ExpectedGroup(row) ==
    [area_planted |-> HasWord(row, "indicator_group", "area"),
     area_harvested |-> HasWord(row, "indicator_group", "area"),
     production |-> HasWord(row, "indicator_group", "production"),
     quantity_produced |-> \/ HasWord(row, "indicator_group", "quantity")
                           \/ HasWord(row, "indicator_group", "yield")]

\* the four booleans of an aggregate
FlagsOf(a) ==
    [area_planted |-> a.area_planted, area_harvested |-> a.area_harvested,
     production |-> a.production, quantity_produced |-> a.quantity_produced]

\* C13: the indicator text is classified by four independent
\* case-insensitive substring tests (planted/planting, harvested/harvesting,
\* yield/production, quantity/volume/output); whenever one of them is true
\* the four booleans of the row are exactly the results of the four tests,
\* whatever the indicator group says.
ClassifyByText ==
    (RowDone /\ AnyFlag(ExpectedText(TheRow))) =>
        \A k \in DOMAIN inventory : FlagsOf(inventory[k]) = ExpectedText(TheRow)

\* "Area Harvested" with the group "Production": area_harvested alone
ClassifyByTextWitness ==
    /\ RowDone
    /\ CellOf(TheRow, "indicator") = Str("Area Harvested")
    /\ CellOf(TheRow, "indicator_group") = Str("Production")
    /\ KEMaize \in DOMAIN inventory
    /\ inventory[KEMaize].area_harvested
    /\ ~inventory[KEMaize].area_planted
    /\ ~inventory[KEMaize].production
    /\ ~inventory[KEMaize].quantity_produced

\* C14: the indicator group is consulted if and only if the indicator text
\* is missing or makes all four tests false; then "area" sets area_planted
\* and area_harvested, "production" sets production, "quantity" or "yield"
\* sets quantity_produced; when the group is missing too or matches nothing
\* the four booleans are false and the row still contributes its year,
\* season, region and source.
ClassifyByGroup ==
    RowDone =>
        \A k \in DOMAIN inventory :
            /\ FlagsOf(inventory[k])
                 = IF AnyFlag(ExpectedText(TheRow)) THEN ExpectedText(TheRow)
                   ELSE ExpectedGroup(TheRow)
            /\ (/\ ~AnyFlag(ExpectedText(TheRow))
                /\ ~AnyFlag(ExpectedGroup(TheRow))
                /\ TheRow \in ClassifyRows) =>
                   /\ FlagsOf(inventory[k]) = NoFlags
                   /\ inventory[k].years = {2019}
                   /\ inventory[k].seasonality = {Str("Annual")}
                   /\ inventory[k].regions = {Str("National")}
                   /\ inventory[k].data_sources = {Str("Unknown")}

\* a null indicator with the group "Crop AREA and production"
ClassifyByGroupWitness ==
    /\ RowDone
    /\ "indicator" \in DOMAIN TheRow
    /\ TheRow["indicator"] = NaN
    /\ CellOf(TheRow, "indicator_group") = Str("Crop AREA and production")
    /\ KEMaize \in DOMAIN inventory
    /\ inventory[KEMaize].area_planted
    /\ inventory[KEMaize].area_harvested
    /\ inventory[KEMaize].production
    /\ ~inventory[KEMaize].quantity_produced

-----------------------------------------------------------------------------
(* Properties of the indicator labels, on a tree of one file of one row *)

\* the raw indicator label of the row, when it has one
LabelsOf(row) ==
    IF NonEmptyStr(CellOf(row, "indicator")) THEN {CellOf(row, "indicator")}
    ELSE {}

\* C15: the indicators of an aggregate are exactly the raw indicator labels
\* present on its rows: a row whose indicator column is absent, null or
\* empty adds nothing, so that an aggregate built from such rows alone has
\* no indicators and a projected indicator_count of 0.
IndicatorLabels ==
    /\ RowDone =>
          \A k \in DOMAIN inventory : inventory[k].indicators = LabelsOf(TheRow)
    /\ pc = "returned" =>
          \A k \in DOMAIN result :
              SummaryRecord(k, result[k]).indicator_count
                  = Cardinality(LabelsOf(TheRow))

-----------------------------------------------------------------------------
(* Properties of the projection *)

\* create_summary_dataframe has run
Projected == pc \in {"saved_summary", "dashboard"}

\* the key and the aggregate the i-th record of the summary was made from
RecordKey(i) == <<summary_df[i].country_code, summary_df[i].crop>>
RecordAggregate(i) == inventory[RecordKey(i)]

BooleanFields == {"area_planted", "area_harvested", "quantity_produced", "production"}
TrueCount(a) == Cardinality({f \in BooleanFields : a[f]})

\* C16: for an aggregate with exactly k of its four booleans true the
\* projected completeness is k x 25, and has_area_planted,
\* has_area_harvested, has_quantity, has_production are area_planted,
\* area_harvested, quantity_produced, production.
CompletenessFormula ==
    Projected =>
        \A i \in 1..Len(summary_df) :
            /\ RecordKey(i) \in DOMAIN inventory
            /\ summary_df[i].completeness = TrueCount(RecordAggregate(i)) * 25
            /\ summary_df[i].has_area_planted = RecordAggregate(i).area_planted
            /\ summary_df[i].has_area_harvested = RecordAggregate(i).area_harvested
            /\ summary_df[i].has_quantity = RecordAggregate(i).quantity_produced
            /\ summary_df[i].has_production = RecordAggregate(i).production

\* a record of three booleans and a record of none
CompletenessFormulaWitness ==
    /\ Projected
    /\ \E i \in 1..Len(summary_df) :
          /\ summary_df[i].completeness = 75
          /\ ~summary_df[i].has_production
    /\ \E i \in 1..Len(summary_df) : summary_df[i].completeness = 0

\* C17: the summary has exactly one record for each (country_code, crop) key
\* of the inventory: the pairs of the records are the keys, no pair comes
\* twice, and the inventory is as it was before the projection.
OneRecordPerKey ==
    Projected =>
        /\ {RecordKey(i) : i \in 1..Len(summary_df)} = DOMAIN result
        /\ Len(summary_df) = Cardinality(DOMAIN result)
        /\ result = Converted(inventory)

\* two crops of one country, each with its record
OneRecordPerKeyWitness ==
    /\ Projected
    /\ Len(summary_df) = 2
    /\ summary_df[1].country_code = summary_df[2].country_code
    /\ summary_df[1].crop # summary_df[2].crop

SetMin(ys) == CHOOSE x \in ys : \A y \in ys : x <= y
SetMax(ys) == CHOOSE x \in ys : \A y \in ys : x >= y

\* C18: year_count is the number of distinct years; with years, year_min and
\* year_max are the least and the greatest and year_range is "{min}-{max}",
\* so that year_min <= year_max and year_count <= year_max - year_min + 1;
\* without years, year_min and year_max are null, year_count is 0 and
\* year_range is "N/A".
YearDerivations ==
    Projected =>
        \A i \in 1..Len(summary_df) :
            LET ys == RecordAggregate(i).years
                r == summary_df[i]
            IN /\ r.year_count = Cardinality(ys)
               /\ IF ys # {}
                  THEN /\ r.year_min = Num(SetMin(ys))
                       /\ r.year_max = Num(SetMax(ys))
                       /\ r.year_range
                            = ToString(SetMin(ys)) \o "-" \o ToString(SetMax(ys))
                       /\ r.year_min.n <= r.year_max.n
                       /\ r.year_count <= r.year_max.n - r.year_min.n + 1
                  ELSE /\ r.year_min = PyNone
                       /\ r.year_max = PyNone
                       /\ r.year_count = 0
                       /\ r.year_range = "N/A"

\* a record of the years 2018 and 2020 and a record of no year
YearDerivationsWitness ==
    /\ Projected
    /\ \E i \in 1..Len(summary_df) :
          /\ summary_df[i].year_range = "2018-2020"
          /\ summary_df[i].year_count = 2
    /\ \E i \in 1..Len(summary_df) : summary_df[i].year_range = "N/A"

\* C19: data_sources is the join of the source labels in sorted order when
\* the aggregate has at most 3 sources and "{n} sources" when it has more.
SourcesRendering ==
    Projected =>
        \A i \in 1..Len(summary_df) :
            LET ss == RecordAggregate(i).data_sources
            IN summary_df[i].data_sources
                 = IF Cardinality(ss) <= 3 THEN Join(SortedVals(ss), "; ")
                   ELSE ToString(Cardinality(ss)) \o " sources"

\* a record of three sources and a record of four
SourcesRenderingWitness ==
    /\ Projected
    /\ \E i \in 1..Len(summary_df) : summary_df[i].data_sources = "FAO; USAID; WFP"
    /\ \E i \in 1..Len(summary_df) : summary_df[i].data_sources = "4 sources"

-----------------------------------------------------------------------------
(* Properties of the rollup *)

\* the records of the summary of a country, in order
RecordsOf(c) == SelectSeq(summary_df, LAMBDA r : r.country_code = c)

RECURSIVE SumOfField(_, _)
SumOfField(recs, col) ==
    IF recs = <<>> THEN 0 ELSE Head(recs)[col] + SumOfField(Tail(recs), col)

\* the non-null values of a column of the records
KnownYears(recs, col) ==
    {recs[i][col].n : i \in {j \in 1..Len(recs) : recs[j][col].k = "num"}}

\* C20: the rollup has exactly one record for each country code of the
\* summary; its crop is the number of distinct crops of the country,
\* year_min the least non-null year_min and year_max the greatest non-null
\* year_max of the country's records, region_count the sum of their
\* region_count, and completeness their mean: the mean times the number of
\* records is the sum of their completeness.
RollupByCountry ==
    (pc = "dashboard" /\ Len(summary_df) > 0) =>
        /\ {country_summary[n].country_code : n \in 1..Len(country_summary)}
             = {summary_df[i].country_code : i \in 1..Len(summary_df)}
        /\ \A n \in 1..Len(country_summary), m \in 1..Len(country_summary) :
              country_summary[n].country_code = country_summary[m].country_code
                  => n = m
        /\ \A n \in 1..Len(country_summary) :
              LET c == country_summary[n]
                  recs == RecordsOf(c.country_code)
              IN /\ c.crop = Cardinality({recs[i].crop : i \in 1..Len(recs)})
                 /\ KnownYears(recs, "year_min") # {} =>
                        c.year_min = Num(SetMin(KnownYears(recs, "year_min")))
                 /\ KnownYears(recs, "year_max") # {} =>
                        c.year_max = Num(SetMax(KnownYears(recs, "year_max")))
                 /\ c.region_count = SumOfField(recs, "region_count")
                 /\ c.completeness.num * Len(recs)
                      = SumOfField(recs, "completeness") * c.completeness.den

\* one country with two crops, one of them without years, and a mean of
\* completeness that is not a whole number
RollupByCountryWitness ==
    /\ pc = "dashboard"
    /\ Len(summary_df) = 2
    /\ Len(country_summary) = 1
    /\ country_summary[1].crop = 2
    /\ country_summary[1].year_min = Num(2019)
    /\ \E i \in 1..2 : summary_df[i].year_min = PyNone
    /\ country_summary[1].completeness.den = 2

-----------------------------------------------------------------------------
(* Properties of the returned inventory *)

ListSet(l) == {l[i] : i \in 1..Len(l)}

\* each element is less than every later one: sorted, without duplicates
AscendingInts(l) == \A i \in 1..Len(l), j \in 1..Len(l) : i < j => l[i] < l[j]
AscendingVals(l) ==
    \A i \in 1..Len(l), j \in 1..Len(l) : i < j => ValLess(l[i], l[j])

SetFields == {"seasonality", "regions", "data_sources", "indicators"}

\* C21: in the inventory create_crop_inventory returns, years, seasonality,
\* regions, data_sources and indicators of every aggregate are lists sorted
\* ascending without duplicates, the set of each list is the set the pass
\* accumulated, and the four booleans are those of the pass.
RoundTrip ==
    pc = "returned" =>
        /\ DOMAIN result = DOMAIN inventory
        /\ \A k \in DOMAIN result :
              /\ AscendingInts(result[k].years)
              /\ ListSet(result[k].years) = inventory[k].years
              /\ \A f \in SetFields :
                    /\ AscendingVals(result[k][f])
                    /\ ListSet(result[k][f]) = inventory[k][f]
              /\ FlagsOf(result[k]) = FlagsOf(inventory[k])

\* an aggregate of two years and two indicator labels was returned
RoundTripWitness ==
    /\ pc = "returned"
    /\ KEMaize \in DOMAIN result
    /\ result[KEMaize].years = <<2019, 2020>>
    /\ result[KEMaize].indicators = <<Str("Area Harvested"), Str("Production")>>
    /\ result[KEMaize].area_harvested
    /\ result[KEMaize].production

-----------------------------------------------------------------------------
(* Properties of main *)

\* C22: when the data directory does not exist, the only step of main is
\* the failure exit: it creates no output directory, reads no file, runs no
\* step of the aggregation and leaves every output file as it was.
MissingDirAborts ==
    [][~args.data_dir =>
          /\ pc = "main"
          /\ pc' = "exit1"
          /\ disk' = disk
          /\ UNCHANGED <<files, fi, ri, inventory, key_order, file_count,
                          row_count, error_count, country_set, crop_set, result,
                          summary_df, country_summary>>]_vars

\* main has exited, the output directory still does not exist
MissingDirAbortsWitness ==
    /\ ~args.data_dir
    /\ pc = "exit1"
    /\ ~disk.dir
    /\ row_count = 0

\* C23: once the data directory exists the processing run always completes:
\* whatever the tree holds, the pass returns an inventory and main goes on
\* to write the three outputs; it never ends in the failure exit.
AlwaysCompletes ==
    args.data_dir =>
        /\ pc # "raised"
        /\ pc # "exit1"
        /\ (pc = "dashboard" /\ ~NoneWritten) => AllWritten

-----------------------------------------------------------------------------
(* Properties of the keys of the inventory *)

\* the pairs the rows gone through so far were extracted to
ExtractedKeys ==
    {KeyOf(Fields(i)) : i \in {j \in 1..Len(Processed) : ~Outcomes[Processed[j]].skipped}}

\* C24: a (country_code, crop) key is in the inventory if and only if a row
\* extracted to that pair was processed without error, and every aggregate
\* has at least one season and one source, so that the projection never
\* renders its seasonality as "N/A".
KeysAndNonEmpty ==
    /\ \A k \in ExtractedKeys \cup DOMAIN inventory :
          k \in DOMAIN inventory <=> RowsOfKey(k) # {}
    /\ \A k \in DOMAIN inventory :
          /\ inventory[k].seasonality # {}
          /\ inventory[k].data_sources # {}
    /\ pc = "returned" =>
          \A k \in DOMAIN result : SummaryRecord(k, result[k]).seasonality # "N/A"

\* the only row of (KE, Maize) raised, the row of (UG, Unknown Crop) did not
KeysAndNonEmptyWitness ==
    /\ pc = "returned"
    /\ KEMaize \in ExtractedKeys
    /\ KEMaize \notin DOMAIN inventory
    /\ UGUnknown \in DOMAIN inventory
    /\ error_count = 1

-----------------------------------------------------------------------------
(* Properties of the choice between the existing files and the processing *)

\* with --skip_processing and the two files in place main goes to the
\* dashboard: no step of the pass, no output file touched
SkipLeavesOutputs ==
    (pc = "paths" /\ UseExisting) =>
        /\ pc' = "dashboard"
        /\ disk' = disk
        /\ UNCHANGED <<files, fi, ri, inventory, key_order, file_count,
                        row_count, error_count, country_set, crop_set, result,
                        summary_df, country_summary>>

\* otherwise the pass is started
ElseProcesses == (pc = "paths" /\ ~UseExisting) => pc' = "walk"

\* the step that ends a processing run
EndsProcessing == pc \notin {"main", "paths"} /\ pc' \in {"dashboard", "exit1"}

\* C25: with --skip_processing set and crop_inventory.json and
\* crop_inventory_summary.csv both present, main runs no aggregation and
\* leaves the three output files as they are before it starts the
\* dashboard; otherwise the processing run is executed and ends with the
\* outputs rewritten.
SkipOrProcess ==
    [][/\ SkipLeavesOutputs
       /\ ElseProcesses
       /\ EndsProcessing => AllWritten']_vars

====
